---- MODULE Spec2Model ----
(***************************************************************************)
(* A model of discord/user.py: the user objects (BaseUser, ClientUser,     *)
(* User), their construction, update, copy, comparison and destruction,    *)
(* the derived accessors, and the coroutines that wrap remote calls        *)
(* (ClientUser.edit, ClientUser.create_group, ClientUser.edit_settings,    *)
(* User.create_dm).                                                        *)
(*                                                                         *)
(* Encoding of Python values                                               *)
(*   - an object is a function from the names of the slots that have been  *)
(*     assigned to their values (plus "cls", its class); a slot that was   *)
(*     never assigned is not in the domain, and reading it is an           *)
(*     AttributeError;                                                     *)
(*   - a dict (payload, keyword arguments) is a function from its keys;    *)
(*   - a decimal string (an id on the wire, a discriminator) is a sequence *)
(*     of digits, so that int() and str() are real conversions;            *)
(*   - None is "None" where the other values are strings and <<>> where    *)
(*     they are integers (an Optional[int] is <<>> or <<n>>);              *)
(*   - where one Python variable holds values of several types (the avatar *)
(*     local of edit) the value is a record tagged with its type, t.       *)
(***************************************************************************)
EXTENDS Integers, Sequences, FiniteSets, TLC

VARIABLES
    objs,       \* the user objects alive, by handle; NoObj where none is
    last,       \* the last operation applied to objs and its result (history)
    users,      \* the registry of stored users of each session context
    me,         \* the ClientUser of the session (the self of edit, create_group)
    co,         \* the frame of the ClientUser coroutine: its pc and locals
    calls,      \* the remote calls the coroutine has issued, in order (history)
    token,      \* the authentication token the transport holds
    dm,         \* the frames of the create_dm coroutines, by task
    dms,        \* the session's cache of private channels, by user id
    dmcalls,    \* the start_private_message calls issued, in order (history)
    dmhist      \* history of create_dm: the calls started, those started with no
                \* channel cached, the channels registered, and whether a call
                \* ever started while another was suspended

objVars == <<objs, last, users>>
clientVars == <<me, co, calls, token>>
dmVars == <<dm, dms, dmcalls, dmhist>>
vars == <<objs, last, users, me, co, calls, token, dm, dms, dmcalls, dmhist>>

(***************************************************************************)
(* Bounds                                                                  *)
(***************************************************************************)
\* the longest mentions list of a message
MaxMentions == 2
\* the most recipients create_group is called with
MaxRecipients == 3
\* the most create_dm calls made in one run
MaxDmCalls == 3
\* the longest guild_positions list edit_settings is called with
MaxGuilds == 2

(***************************************************************************)
(* Python values and helpers                                               *)
(***************************************************************************)
None == "None"
NoneInt == <<>>
EmptyDict == [k \in {} |-> 0]
NoObj == [cls |-> "NoObj"]

Has(d, k) == k \in DOMAIN d

\* dict.get(k, default)
get(d, k, default) == IF Has(d, k) THEN d[k] ELSE default

\* self.k = v
setattr(o, k, v) == [x \in (DOMAIN o) \cup {k} |-> IF x = k THEN v ELSE o[x]]

\* int(s) of a decimal string
RECURSIVE int(_)
int(s) == IF Len(s) = 0 THEN 0 ELSE 10 * int(SubSeq(s, 1, Len(s) - 1)) + s[Len(s)]

\* str(n) of a natural number
RECURSIVE str(_)
str(n) == IF n < 10 THEN <<n>> ELSE Append(str(n \div 10), n % 10)

\* the sequences over S of length at most n
RECURSIVE SeqsUpTo(_, _)
SeqsUpTo(S, n) ==
    IF n = 0 THEN {<<>>}
    ELSE LET shorter == SeqsUpTo(S, n - 1)
         IN  shorter \cup {Append(q, x) : q \in shorter, x \in S}

\* n >> k
RECURSIVE Shr(_, _)
Shr(n, k) == IF k = 0 THEN n ELSE Shr(n \div 2, k - 1)

(***************************************************************************)
(* Inputs: the payloads of the wire                                        *)
(***************************************************************************)
\* ids on the wire: 2^22, 2^22 written with a leading zero, 2^22 + 1 (another
\* id with the same hash) and 2^23
IdA == <<4,1,9,4,3,0,4>>
IdA0 == <<0,4,1,9,4,3,0,4>>
IdB == <<4,1,9,4,3,0,5>>
IdC == <<8,3,8,8,6,0,8>>
IdStrs == {IdA, IdA0, IdB, IdC}
IdInts == { int(s) : s \in IdStrs }

\* inbound user objects: the mandatory keys, and the optional ones present,
\* absent or null
BasePayloads ==
    { [id |-> IdA, username |-> "alice", discriminator |-> <<0,0,0,1>>, avatar |-> None],
      [id |-> IdA0, username |-> "bob", discriminator |-> <<0,0,0,7>>, avatar |-> "a_hash",
       banner |-> "b_hash", accent_color |-> <<255>>, public_flags |-> 64, bot |-> TRUE],
      [id |-> IdB, username |-> "alice", discriminator |-> <<0,0,0,0>>, avatar |-> None,
       banner |-> None, accent_color |-> NoneInt, bot |-> FALSE, system |-> TRUE],
      [id |-> IdC, username |-> "carol", discriminator |-> <<1,2,3,4>>, avatar |-> "a_hash",
       system |-> FALSE] }

\* inbound client user objects: a user object with the account-private keys
ClientPayloads ==
    { [id |-> IdA, username |-> "alice", discriminator |-> <<0,0,0,1>>, avatar |-> None],
      [id |-> IdA0, username |-> "bob", discriminator |-> <<0,0,0,7>>, avatar |-> "a_hash",
       bot |-> TRUE, verified |-> TRUE, email |-> None, flags |-> 1],
      [id |-> IdB, username |-> "alice", discriminator |-> <<0,0,0,0>>, avatar |-> None,
       system |-> TRUE, verified |-> TRUE, email |-> "a@x", locale |-> "en-US",
       flags |-> 1, mfa_enabled |-> TRUE, premium |-> TRUE, premium_type |-> <<2>>],
      [id |-> IdC, username |-> "carol", discriminator |-> <<1,2,3,4>>, avatar |-> "a_hash",
       banner |-> "b_hash", email |-> "c@x", premium_type |-> <<7>>] }

\* the keys _update reads with data[key]
MandatoryKeys == {"id", "username", "discriminator", "avatar"}

\* the dict d without the key k
Without(d, k) == [x \in (DOMAIN d) \ {k} |-> d[x]]

\* inbound objects that lack one mandatory key
MissingKeyPayloads ==
    { Without([id |-> IdC, username |-> "dave", discriminator |-> <<0,0,0,9>>,
               avatar |-> "d_hash", bot |-> TRUE], k) : k \in MandatoryKeys }

\* the session contexts an object may belong to
States == {"state1", "state2"}

(***************************************************************************)
(* enums.py (not among the sources): try_enum and the enumerations         *)
(***************************************************************************)
\* len(DefaultAvatar)
NumDefaultAvatars == 5

\* the values of PremiumType: nitro_classic = 1, nitro = 2
PremiumTypeValues == {1, 2}

\* try_enum(PremiumType, val): the member with that value, else a proxy for
\* an unknown value (also for None)
try_enum_PremiumType(val) ==
    IF val # NoneInt /\ val[1] \in PremiumTypeValues
    THEN [enum |-> "PremiumType", known |-> TRUE, value |-> val]
    ELSE [enum |-> "PremiumType", known |-> FALSE, value |-> val]

(***************************************************************************)
(* BaseUser, ClientUser, User: construction, update, copy                  *)
(***************************************************************************)
Classes == {"BaseUser", "ClientUser", "User"}

\* isinstance(o, _UserTag)
IsUserTag(o) == o.cls \in Classes

Ok(o) == [obj |-> o, exc |-> "None"]
Raise(o, e) == [obj |-> o, exc |-> e]

\* a mutation of BaseUser._update: a key absent from the payload keeps the
\* value the object held (a merge), where the source falls back to a default
BaseUser_updateMerge(self, data) ==
    IF ~Has(data, "username") THEN Raise(self, "KeyError") ELSE
    LET s1 == setattr(self, "name", data["username"]) IN
    IF ~Has(data, "id") THEN Raise(s1, "KeyError") ELSE
    LET s2 == setattr(s1, "id", int(data["id"])) IN
    IF ~Has(data, "discriminator") THEN Raise(s2, "KeyError") ELSE
    LET s3 == setattr(s2, "discriminator", data["discriminator"]) IN
    IF ~Has(data, "avatar") THEN Raise(s3, "KeyError") ELSE
    LET s4 == setattr(s3, "_avatar", data["avatar"])
        s5 == setattr(s4, "_banner", get(data, "banner", get(self, "_banner", None)))
        s6 == setattr(s5, "_accent_colour", get(data, "accent_color", NoneInt))
        s7 == setattr(s6, "_public_flags", get(data, "public_flags", 0))
        s8 == setattr(s7, "bot", get(data, "bot", get(self, "bot", FALSE)))
    IN  Ok(setattr(s8, "system", get(data, "system", FALSE)))

\* BaseUser._update: the assignments in source order; a missing mandatory
\* key raises KeyError at its line, after the assignments before it
BaseUser_update(self, data) ==
    IF ~Has(data, "username") THEN Raise(self, "KeyError") ELSE
    LET s1 == setattr(self, "name", data["username"]) IN
    IF ~Has(data, "id") THEN Raise(s1, "KeyError") ELSE
    LET s2 == setattr(s1, "id", int(data["id"])) IN
    IF ~Has(data, "discriminator") THEN Raise(s2, "KeyError") ELSE
    LET s3 == setattr(s2, "discriminator", data["discriminator"]) IN
    IF ~Has(data, "avatar") THEN Raise(s3, "KeyError") ELSE
    LET s4 == setattr(s3, "_avatar", data["avatar"])
        s5 == setattr(s4, "_banner", get(data, "banner", None))
        s6 == setattr(s5, "_accent_colour", get(data, "accent_color", NoneInt))
        s7 == setattr(s6, "_public_flags", get(data, "public_flags", 0))
        s8 == setattr(s7, "bot", get(data, "bot", FALSE))
    IN  Ok(setattr(s8, "system", get(data, "system", FALSE)))

\* ClientUser._update
ClientUser_update(self, data) ==
    LET base == BaseUser_update(self, data) IN
    IF base.exc # "None" THEN base ELSE
    LET s1 == setattr(base.obj, "verified", get(data, "verified", FALSE))
        s2 == setattr(s1, "email", get(data, "email", None))
        s3 == setattr(s2, "locale", get(data, "locale", None))
        s4 == setattr(s3, "_flags", get(data, "flags", 0))
        s5 == setattr(s4, "mfa_enabled", get(data, "mfa_enabled", FALSE))
        s6 == setattr(s5, "premium", get(data, "premium", FALSE))
    IN  Ok(setattr(s6, "premium_type",
                   try_enum_PremiumType(get(data, "premium_type", NoneInt))))

\* self._update(data), by the class of self
_update(self, data) ==
    IF self.cls = "ClientUser" THEN ClientUser_update(self, data)
    ELSE BaseUser_update(self, data)

\* BaseUser.__init__
BaseUser__init__(cls, state, data) ==
    _update([cls |-> cls, _state |-> state], data)

\* ClientUser.__init__
ClientUser__init__(state, data) ==
    LET r == BaseUser__init__("ClientUser", state, data) IN
    IF r.exc # "None" THEN r ELSE Ok(setattr(r.obj, "_relationships", EmptyDict))

\* User.__init__
User__init__(state, data) ==
    LET r == BaseUser__init__("User", state, data) IN
    IF r.exc # "None" THEN r ELSE Ok(setattr(r.obj, "_stored", FALSE))

\* cls(state=state, data=data)
New(cls, state, data) ==
    CASE cls = "ClientUser" -> ClientUser__init__(state, data)
      [] cls = "User" -> User__init__(state, data)
      [] OTHER -> BaseUser__init__(cls, state, data)

\* the slots BaseUser._copy assigns, in source order
CopiedSlots ==
    <<"name", "id", "discriminator", "_avatar", "_banner", "_accent_colour",
      "bot", "_state", "_public_flags">>

\* BaseUser._copy(cls, user): cls.__new__(cls), then one assignment per slot
BaseUser_copy(cls, user) ==
    [k \in {"cls"} \cup {CopiedSlots[i] : i \in 1..Len(CopiedSlots)} |->
        IF k = "cls" THEN cls ELSE user[k]]

\* User._copy(cls, user)
User_copy(cls, user) == setattr(BaseUser_copy(cls, user), "_stored", FALSE)

\* cls._copy(user), by the class it is called on
_copy(cls, user) ==
    IF cls = "User" THEN User_copy(cls, user) ELSE BaseUser_copy(cls, user)

(***************************************************************************)
(* state.py (not among the sources): the registry of stored users of a     *)
(* session, [torn, ids]: whether it has been torn down, and the ids held   *)
(***************************************************************************)
NoUsers == [torn |-> FALSE, ids |-> {}]

\* ConnectionState.store_user, for a user it does not hold yet: registers
\* the user under its id and sets its stored flag. The result is [reg, obj].
store_user(reg, user) ==
    [reg |-> [reg EXCEPT !.ids = @ \cup {user["id"]}],
     obj |-> setattr(user, "_stored", TRUE)]

\* ConnectionState.deref_user(user_id): releases the id; fails on a registry
\* torn down, and when fail says so. The result is the registry, or raises.
deref_user(reg, user_id, fail) ==
    IF reg.torn THEN Raise(reg, "AttributeError")
    ELSE IF fail THEN Raise(reg, "RuntimeError")
    ELSE Ok([reg EXCEPT !.ids = @ \ {user_id}])

\* the session is closed: its registry is torn down
clear(reg) == [torn |-> TRUE, ids |-> {}]

(***************************************************************************)
(* User.__del__                                                            *)
(***************************************************************************)
\* isinstance(e, Exception), for the exceptions of the model
IsException(e) ==
    e \in {"AttributeError", "KeyError", "TypeError", "RuntimeError",
           "UnboundLocalError", "ClientException", "InvalidArgument", "HTTPException"}

\* __del__, lines 716-717, the body of the try: reading a slot never assigned
\* raises AttributeError. The result is [exc, calls, reg]: the exception that
\* leaves the body, the deref_user calls made, and the registry afterwards.
User__del__try(self, reg, fail) ==
    IF ~Has(self, "_stored") THEN [exc |-> "AttributeError", calls |-> <<>>, reg |-> reg]
    ELSE IF ~self["_stored"] THEN [exc |-> "None", calls |-> <<>>, reg |-> reg]
    ELSE IF ~Has(self, "_state") \/ ~Has(self, "id")
    THEN [exc |-> "AttributeError", calls |-> <<>>, reg |-> reg]
    ELSE LET r == deref_user(reg, self["id"], fail)
         IN  [exc |-> r.exc,
              calls |-> <<[name |-> "deref_user", state |-> self["_state"],
                           user_id |-> self["id"]]>>,
              reg |-> r.obj]

\* a mutation of __del__: without the except clause
User__del__NoExcept(self, reg, fail) == User__del__try(self, reg, fail)

\* User.__del__: except Exception: pass
User__del__(self, reg, fail) ==
    LET r == User__del__try(self, reg, fail)
    IN  IF IsException(r.exc) THEN [r EXCEPT !.exc = "None"] ELSE r

\* the object is destroyed: only a User has a __del__
__del__(self, reg, fail) ==
    IF self.cls = "User" THEN User__del__(self, reg, fail)
    ELSE [exc |-> "None", calls |-> <<>>, reg |-> reg]

(***************************************************************************)
(* asset.py (not among the sources): what an Asset is built from           *)
(***************************************************************************)
Asset_from_default_avatar(state, index) ==
    [t |-> "Asset", kind |-> "default", state |-> state, index |-> index]

Asset_from_avatar(state, user_id, avatar) ==
    [t |-> "Asset", kind |-> "avatar", state |-> state, id |-> user_id, hash |-> avatar]

(***************************************************************************)
(* BaseUser: comparison and derived accessors                              *)
(***************************************************************************)
\* a mutation of __eq__: equal only when the names match too
BaseUser__eq__ByName(self, other) ==
    IsUserTag(other) /\ other["id"] = self["id"] /\ other["name"] = self["name"]

\* BaseUser.__eq__
BaseUser__eq__(self, other) == IsUserTag(other) /\ other["id"] = self["id"]

\* BaseUser.__ne__
BaseUser__ne__(self, other) == ~BaseUser__eq__(self, other)

\* BaseUser.__hash__
BaseUser__hash__(self) == Shr(self["id"], 22)

\* a mutation of avatar: the default variant chosen by the id
avatarById(self) ==
    IF self["_avatar"] = None
    THEN Asset_from_default_avatar(self["_state"], self["id"] % NumDefaultAvatars)
    ELSE Asset_from_avatar(self["_state"], self["id"], self["_avatar"])

\* BaseUser.avatar
avatar(self) ==
    IF self["_avatar"] = None
    THEN Asset_from_default_avatar(self["_state"],
                                   int(self["discriminator"]) % NumDefaultAvatars)
    ELSE Asset_from_avatar(self["_state"], self["id"], self["_avatar"])

\* BaseUser.default_avatar
default_avatar(self) ==
    Asset_from_default_avatar(self["_state"],
                              int(self["discriminator"]) % NumDefaultAvatars)

\* the messages mentioned_in is asked about: the flag and the mentions list
Messages ==
    [mention_everyone : BOOLEAN,
     mentions : SeqsUpTo({[id |-> i] : i \in IdInts}, MaxMentions)]

\* a mutation of mentioned_in: the mention_everyone flag is not looked at
mentioned_inListOnly(self, message) ==
    \E i \in 1..Len(message.mentions) : message.mentions[i].id = self["id"]

\* BaseUser.mentioned_in
mentioned_in(self, message) ==
    IF message.mention_everyone THEN TRUE
    ELSE \E i \in 1..Len(message.mentions) : message.mentions[i].id = self["id"]

(***************************************************************************)
(* Values of several types in one variable, tagged with the type           *)
(***************************************************************************)
PyNone == [t |-> "NoneType"]
Bytes(v) == [t |-> "bytes", v |-> v]
Unbound == [t |-> "unbound"]

(***************************************************************************)
(* utils.py, enums.py, errors.py, channel.py (not among the sources)       *)
(***************************************************************************)
\* byte strings that start with the magic number of a supported image format
ImageBytes == {"PNG_bytes"}

\* utils._bytes_to_base64_data(data): a data URI with the mime type found from
\* the magic number and the base64 text of the bytes; InvalidArgument for
\* bytes of no supported image type; data.startswith(b'...') fails with
\* TypeError on a str and with AttributeError on an object without it
_bytes_to_base64_data(data) ==
    CASE data.t = "bytes" /\ data.v \in ImageBytes ->
            Ok([t |-> "str", mime |-> "image/png", base64 |-> data.v])
      [] data.t = "bytes" /\ data.v \notin ImageBytes -> Raise(PyNone, "InvalidArgument")
      [] data.t = "str" -> Raise(PyNone, "TypeError")
      [] OTHER -> Raise(PyNone, "AttributeError")

\* the members of HypeSquadHouse: bravery = 1, brilliance = 2, balance = 3
HypeSquadHouse == { [t |-> "HypeSquadHouse", value |-> v] : v \in {1, 2, 3} }

\* isinstance(e, ClientException): InvalidArgument derives from ClientException
IsClientException(e) == e \in {"ClientException", "InvalidArgument"}

\* http._token(token, bot=False): the transport takes the new token as its
\* own; rot is how the call ends, "None" or the exception it raises. The
\* result is the token the transport holds afterwards.
TokenOutcomes == {"None", "KeyError", "RuntimeError"}
http_token(tok, new, rot) == IF rot = "None" THEN Ok(new) ELSE Raise(tok, rot)

\* GroupChannel(me=me, data=data, state=state)
GroupChannel(self, data, state) ==
    [t |-> "GroupChannel", me |-> self, data |-> data, state |-> state]

(***************************************************************************)
(* ClientUser.edit                                                         *)
(***************************************************************************)
\* a frame that has finished: exc is the exception that left it, or "None"
Done(frame, exc, result) == [frame EXCEPT !.pc = "done", !.exc = exc, !.result = result]

\* the frame suspended at the await of a remote call, and the call issued
Await(frame, call) == [co |-> [frame EXCEPT !.pc = call.name], issued |-> <<call>>]
Finished(frame, exc, result) == [co |-> Done(frame, exc, result), issued |-> <<>>]

\* edit, lines 512: await http.change_hypesquad_house(value); value is bound
\* only on the branch that read house.value
edit_change_house(frame) ==
    IF frame.value = Unbound THEN Finished(frame, "UnboundLocalError", PyNone)
    ELSE Await(frame, [name |-> "change_hypesquad_house", value |-> frame.value.v])

\* edit, line 514: await http.edit_profile with args
edit_call_edit_profile(frame) ==
    Await(frame, [name |-> "edit_profile", args |-> frame.args])

\* edit, lines 489-499: the arguments of edit_profile
edit_args(self, fields, avatar_local) ==
    LET not_bot_account == ~self["bot"]
        args == [password |-> get(fields, "password", None),
                 username |-> get(fields, "username", self["name"]),
                 avatar |-> avatar_local]
        args1 == IF not_bot_account
                 THEN args @@ ("email" :> get(fields, "email", self["email"]))
                 ELSE args
    IN  IF not_bot_account /\ Has(fields, "new_password")
        THEN args1 @@ ("new_password" :> fields["new_password"])
        ELSE args1

\* a mutation of edit: the password is checked only when no house is given,
\* so a house side call goes out first
edit_beginHouseFirst(self, fields) ==
    LET av == IF Has(fields, "avatar")
              THEN IF fields["avatar"] # PyNone
                   THEN _bytes_to_base64_data(fields["avatar"])
                   ELSE Ok(PyNone)
              ELSE Ok(avatar(self))
        frame == [op |-> "edit", pc |-> "running", fields |-> fields, self0 |-> self,
                  avatar |-> av.obj, args |-> EmptyDict, value |-> Unbound,
                  data |-> EmptyDict, answered |-> FALSE, rotation |-> "no",
                  exc |-> "None", result |-> PyNone]
        not_bot_account == ~self["bot"]
        password == get(fields, "password", None)
    IN  IF av.exc # "None" THEN Finished(frame, av.exc, PyNone)
        ELSE LET f1 == [frame EXCEPT !.args = edit_args(self, fields, av.obj)] IN
             IF Has(fields, "house")
             THEN LET house == fields["house"] IN
                  IF house = PyNone
                  THEN Await(f1, [name |-> "leave_hypesquad_house"])
                  ELSE IF house \notin HypeSquadHouse
                  THEN Finished(f1, "ClientException", PyNone)
                  ELSE edit_change_house([f1 EXCEPT !.value = [t |-> "int", v |-> house.value]])
             ELSE IF not_bot_account /\ password = None
             THEN Finished(frame, "ClientException", PyNone)
             ELSE edit_call_edit_profile(f1)

edit_begin(self, fields) ==
    LET av == IF Has(fields, "avatar")
              THEN IF fields["avatar"] # PyNone
                   THEN _bytes_to_base64_data(fields["avatar"])
                   ELSE Ok(PyNone)
              ELSE Ok(avatar(self))
        frame == [op |-> "edit", pc |-> "running", fields |-> fields, self0 |-> self,
                  avatar |-> av.obj, args |-> EmptyDict, value |-> Unbound,
                  data |-> EmptyDict, answered |-> FALSE, rotation |-> "no",
                  exc |-> "None", result |-> PyNone]
        not_bot_account == ~self["bot"]
        password == get(fields, "password", None)
    IN  IF av.exc # "None" THEN Finished(frame, av.exc, PyNone)
        ELSE IF not_bot_account /\ password = None
        THEN Finished(frame, "ClientException", PyNone)
        ELSE LET f1 == [frame EXCEPT !.args = edit_args(self, fields, av.obj)] IN
             IF Has(fields, "house")
             THEN LET house == fields["house"] IN
                  IF house = PyNone
                  THEN Await(f1, [name |-> "leave_hypesquad_house"])
                  ELSE IF house \notin HypeSquadHouse
                  THEN Finished(f1, "ClientException", PyNone)
                  ELSE edit_change_house([f1 EXCEPT !.value = [t |-> "int", v |-> house.value]])
             ELSE edit_call_edit_profile(f1)

\* edit, lines 515-526: from the response of edit_profile to the return;
\* rot is how the call of http._token ends, when it is made. The frame keeps
\* in rotation whether the call was made ("no") and how it ended.
\* The result is [me, token, co].
edit_finish(self, frame, tok, data, rot) ==
    LET not_bot_account == ~frame.self0["bot"]
        noEmail == not_bot_account /\ ~Has(data, "email")
        self1 == IF not_bot_account /\ Has(data, "email")
                 THEN setattr(self, "email", data["email"]) ELSE self
        \* data['token'] raises KeyError before http._token is called
        attempted == not_bot_account /\ ~noEmail /\ Has(data, "token")
        rotated == IF attempted THEN http_token(tok, data["token"], rot) ELSE Ok(tok)
        tok1 == rotated.obj
        f1 == [frame EXCEPT !.data = data, !.answered = TRUE,
                            !.rotation = IF ~attempted THEN "no"
                                         ELSE IF rotated.exc = "None" THEN "ok"
                                         ELSE "failed"]
        enc == IF frame.avatar # PyNone THEN _bytes_to_base64_data(frame.avatar)
               ELSE Ok(PyNone)
        upd == _update(self1, data)
    IN  IF noEmail THEN [me |-> self, token |-> tok, co |-> Done(f1, "KeyError", PyNone)]
        \* except KeyError: pass
        ELSE IF rotated.exc \notin {"None", "KeyError"}
        THEN [me |-> self1, token |-> tok1, co |-> Done(f1, rotated.exc, PyNone)]
        ELSE IF enc.exc # "None"
        THEN [me |-> self1, token |-> tok1, co |-> Done(f1, enc.exc, PyNone)]
        ELSE IF upd.exc # "None"
        THEN [me |-> upd.obj, token |-> tok1, co |-> Done(f1, upd.exc, PyNone)]
        ELSE [me |-> upd.obj, token |-> tok1,
              co |-> Done(f1, "None",
                          [t |-> "ClientUser", new |-> TRUE,
                           obj |-> New("ClientUser", self["_state"], data).obj])]

(***************************************************************************)
(* ClientUser.create_group                                                 *)
(***************************************************************************)
\* a mutation of create_group: one recipient is enough
create_group_beginOneIsEnough(self, recipients) ==
    LET frame == [op |-> "create_group", pc |-> "running", fields |-> recipients,
                  self0 |-> self, avatar |-> PyNone, args |-> EmptyDict,
                  value |-> Unbound, data |-> EmptyDict, answered |-> FALSE, rotation |-> "no",
                  exc |-> "None", result |-> PyNone]
    IN  IF Len(recipients) < 1 THEN Finished(frame, "ClientException", PyNone)
        ELSE Await(frame, [name |-> "start_group", user_id |-> self["id"],
                           recipients |-> [i \in 1..Len(recipients) |->
                                              str(recipients[i].id)]])

create_group_begin(self, recipients) ==
    LET frame == [op |-> "create_group", pc |-> "running", fields |-> recipients,
                  self0 |-> self, avatar |-> PyNone, args |-> EmptyDict,
                  value |-> Unbound, data |-> EmptyDict, answered |-> FALSE, rotation |-> "no",
                  exc |-> "None", result |-> PyNone]
    IN  IF Len(recipients) < 2 THEN Finished(frame, "ClientException", PyNone)
        ELSE Await(frame, [name |-> "start_group", user_id |-> self["id"],
                           recipients |-> [i \in 1..Len(recipients) |->
                                              str(recipients[i].id)]])

\* create_group, line 561: the return
create_group_finish(self, frame, data) ==
    Done([frame EXCEPT !.data = data, !.answered = TRUE], "None",
         GroupChannel(self, data, self["_state"]))

(***************************************************************************)
(* ClientUser.edit_settings                                                *)
(***************************************************************************)
\* a list object
List(v) == [t |-> "list", v |-> v]

\* a member of an enumeration of enums.py (not among the sources)
Member(enum, value) == [t |-> enum, value |-> value]

\* bool(x), as `if x:` tests it: None is false, a list is true when it is not
\* empty, a member of an enumeration is true whatever its value
bool(x) ==
    CASE x.t = "NoneType" -> FALSE
      [] x.t = "list" -> Len(x.v) > 0
      [] OTHER -> TRUE

\* payload.update with one key
update(payload, k, v) == [x \in (DOMAIN payload) \cup {k} |-> IF x = k THEN v ELSE payload[x]]

\* kwargs after kwargs.pop(k, None) for every k of ks
popped(kwargs, ks) == [x \in (DOMAIN kwargs) \ ks |-> kwargs[x]]

\* line 639: the table of friend_source_flags
dicts ==
    << EmptyDict, [mutual_guilds |-> TRUE], [mutual_friends |-> TRUE],
       [mutual_guilds |-> TRUE, mutual_friends |-> TRUE], [all |-> TRUE] >>

\* [str(x.id) for x in guilds]
str_ids(guilds) == [i \in 1..Len(guilds) |-> str(guilds[i].id)]

\* the options edit_settings pops from kwargs
PoppedOptions ==
    {"explicit_content_filter", "friend_source_flags", "guild_positions",
     "restricted_guilds", "status", "theme"}

\* edit_settings, lines 632-664: the payload built from kwargs
edit_settings_payload(kwargs) ==
    LET content_filter == get(kwargs, "explicit_content_filter", PyNone)
        p1 == IF bool(content_filter)
              THEN update(EmptyDict, "explicit_content_filter", content_filter.value)
              ELSE EmptyDict
        friend_flags == get(kwargs, "friend_source_flags", PyNone)
        p2 == IF bool(friend_flags)
              THEN update(p1, "friend_source_flags", dicts[friend_flags.value + 1])
              ELSE p1
        guild_positions == get(kwargs, "guild_positions", PyNone)
        p3 == IF bool(guild_positions)
              THEN update(p2, "guild_positions", str_ids(guild_positions.v))
              ELSE p2
        restricted_guilds == get(kwargs, "restricted_guilds", PyNone)
        p4 == IF bool(restricted_guilds)
              THEN update(p3, "restricted_guilds", str_ids(restricted_guilds.v))
              ELSE p3
        status == get(kwargs, "status", PyNone)
        p5 == IF bool(status) THEN update(p4, "status", status.value) ELSE p4
        theme == get(kwargs, "theme", PyNone)
        p6 == IF bool(theme) THEN update(p5, "theme", theme.value) ELSE p5
    IN  popped(kwargs, PoppedOptions) @@ p6

\* edit_settings, up to its await
edit_settings_begin(self, kwargs) ==
    LET frame == [op |-> "edit_settings", pc |-> "running", fields |-> kwargs,
                  self0 |-> self, avatar |-> PyNone, args |-> EmptyDict,
                  value |-> Unbound, data |-> EmptyDict, answered |-> FALSE, rotation |-> "no",
                  exc |-> "None", result |-> PyNone]
    IN  Await(frame, [name |-> "edit_settings", payload |-> edit_settings_payload(kwargs)])

\* edit_settings, line 667: return data
edit_settings_finish(frame, data) ==
    Done([frame EXCEPT !.data = data, !.answered = TRUE], "None", data)

(***************************************************************************)
(* state.py, channel.py (not among the sources): the private channel cache *)
(***************************************************************************)
\* ConnectionState._get_private_channel_by_user(user_id)
_get_private_channel_by_user(cache, user_id) == get(cache, user_id, PyNone)

\* DMChannel(me=..., state=..., data=data): a new object (oid is its identity)
\* for channel data["id"], whose recipient is the first of data["recipients"]
DMChannel(oid, data) ==
    [t |-> "DMChannel", oid |-> oid, id |-> int(data["id"]),
     recipient |-> int(data["recipients"][1]["id"])]

\* ConnectionState.add_dm_channel(data): builds the channel, registers it under
\* its recipient's id and returns it. The result is [cache, channel].
add_dm_channel(cache, oid, data) ==
    LET channel == DMChannel(oid, data)
    IN  [cache |-> [k \in (DOMAIN cache) \cup {channel.recipient} |->
                       IF k = channel.recipient THEN channel ELSE cache[k]],
         channel |-> channel]

(***************************************************************************)
(* User.create_dm                                                          *)
(***************************************************************************)
\* User.dm_channel
dm_channel(self, cache) == _get_private_channel_by_user(cache, self["id"])

\* a mutation of create_dm: the cache is not consulted
create_dm_beginNoLookup(self, cache) ==
    LET found == dm_channel(self, cache)
        frame == [pc |-> "running", self0 |-> self, found0 |-> found,
                  exc |-> "None", result |-> PyNone]
    IN  Await(frame, [name |-> "start_private_message", user_id |-> self["id"]])

\* create_dm, lines 765-770: from the call to the await (or the return of the
\* cached channel); found0 keeps what dm_channel returned
create_dm_begin(self, cache) ==
    LET found == dm_channel(self, cache)
        frame == [pc |-> "running", self0 |-> self, found0 |-> found,
                  exc |-> "None", result |-> PyNone]
    IN  IF found # PyNone THEN Finished(frame, "None", found)
        ELSE Await(frame, [name |-> "start_private_message", user_id |-> self["id"]])

\* create_dm, line 771: return state.add_dm_channel(data).
\* The result is [cache, co].
create_dm_finish(frame, cache, oid, data) ==
    LET r == add_dm_channel(cache, oid, data)
    IN  [cache |-> r.cache, co |-> Done(frame, "None", r.channel)]

(***************************************************************************)
(* SpecDm: create_dm called by tasks of the one event loop; a task runs    *)
(* from an await to the next without interruption                          *)
(***************************************************************************)
Tasks == {1, 2}

\* the channel ids the service may answer with
DmChannelIds == { <<7,0,1>>, <<7,0,2>> }

\* what start_private_message(user_id) answers: the payload of the private
\* channel with that user
DmResponses(user_id) ==
    { [id |-> c, type |-> 1, recipients |-> <<[id |-> str(user_id)]>>] : c \in DmChannelIds }

IdleDm == [pc |-> "idle", self0 |-> NoObj, found0 |-> PyNone, exc |-> "None", result |-> PyNone]

\* task t calls await objs[h].create_dm(), up to its await or return
CreateDmCall(t, h) ==
    /\ dm[t].pc = "idle"
    /\ objs[h].cls = "User"
    /\ dmhist.started < MaxDmCalls
    /\ LET r == create_dm_begin(objs[h], dms)
       IN  /\ dm' = [dm EXCEPT ![t] = r.co]
           /\ dmcalls' = dmcalls \o r.issued
    /\ dmhist' = [dmhist EXCEPT
                    !.started = @ + 1,
                    !.misses = IF dm_channel(objs[h], dms) = PyNone THEN @ + 1 ELSE @,
                    !.overlap = @ \/ \E u \in Tasks \ {t} : dm[u].pc = "start_private_message"]
    /\ UNCHANGED <<dms, objVars, clientVars>>

\* start_private_message answers task t
StartPrivateMessageAnswered(t) ==
    /\ dm[t].pc = "start_private_message"
    /\ \E data \in DmResponses(dm[t].self0["id"]) :
         LET r == create_dm_finish(dm[t], dms, dmhist.registered + 1, data)
         IN  /\ dm' = [dm EXCEPT ![t] = r.co]
             /\ dms' = r.cache
    /\ dmhist' = [dmhist EXCEPT !.registered = @ + 1]
    /\ UNCHANGED <<dmcalls, objVars, clientVars>>

\* start_private_message fails for task t
StartPrivateMessageFailed(t) ==
    /\ dm[t].pc = "start_private_message"
    /\ dm' = [dm EXCEPT ![t] = Done(dm[t], "HTTPException", PyNone)]
    /\ UNCHANGED <<dms, dmcalls, dmhist, objVars, clientVars>>

\* the caller in task t takes the result; the task may call again
CollectDm(t) ==
    /\ dm[t].pc = "done"
    /\ dmhist.started < MaxDmCalls
    /\ dm' = [dm EXCEPT ![t] = IdleDm]
    /\ UNCHANGED <<dms, dmcalls, dmhist, objVars, clientVars>>

DmAtRest ==
    /\ dm = [t \in Tasks |-> IdleDm]
    /\ dms = EmptyDict
    /\ dmcalls = <<>>
    /\ dmhist = [started |-> 0, misses |-> 0, registered |-> 0, overlap |-> FALSE]

(***************************************************************************)
(* SpecClient: the ClientUser coroutines as steps; a call runs to its first *)
(* await, and each answer of the transport resumes it up to the next await *)
(* or the end                                                              *)
(***************************************************************************)
\* the keyword arguments edit is called with
AvatarOpts == { EmptyDict, [avatar |-> PyNone], [avatar |-> Bytes("PNG_bytes")],
                [avatar |-> Bytes("text_bytes")] }
PasswordOpts == { EmptyDict, [password |-> None], [password |-> "pw"] }
HouseOpts == { EmptyDict, [house |-> PyNone], [house |-> [t |-> "HypeSquadHouse", value |-> 2]],
               [house |-> [t |-> "str", v |-> "bravery"]] }
OtherOpts == { EmptyDict, [username |-> "neo"],
               [username |-> "neo", email |-> "n@x", new_password |-> "npw"] }
EditFields == { a @@ pw @@ h @@ o :
                a \in AvatarOpts, pw \in PasswordOpts, h \in HouseOpts, o \in OtherOpts }

\* what edit_profile answers: the account's own user object (a non-bot
\* account's carries its email key), with a new token or without
EditResponses(self) ==
    IF self["bot"]
    THEN { [id |-> str(self["id"]), username |-> "neo", discriminator |-> <<0,0,0,7>>,
            avatar |-> "a_new", bot |-> TRUE],
           [id |-> str(self["id"]), username |-> "bob", discriminator |-> <<0,0,0,7>>,
            avatar |-> None, bot |-> TRUE, token |-> "token1"] }
    ELSE { [id |-> str(self["id"]), username |-> "neo", discriminator |-> <<0,0,0,1>>,
            avatar |-> "a_new", email |-> "n@x", verified |-> TRUE, token |-> "token1"],
           [id |-> str(self["id"]), username |-> "alice", discriminator |-> <<0,0,0,1>>,
            avatar |-> None, email |-> None] }

\* what start_group answers: the payload of the new channel
GroupResponses == { [id |-> <<9,0,1>>, type |-> 3], [id |-> <<9,0,2>>, type |-> 3] }

\* the recipients create_group is called with: objects with an id
Recipients == SeqsUpTo({[id |-> i] : i \in IdInts}, MaxRecipients)

\* the keyword arguments edit_settings is called with
FriendFlagsOpts ==
    { EmptyDict, [friend_source_flags |-> PyNone] }
        \cup { [friend_source_flags |-> Member("FriendFlags", n)] : n \in 0..4 }
Guilds == SeqsUpTo({[id |-> i] : i \in {int(IdA), int(IdC)}}, MaxGuilds)
GuildPositionsOpts == { EmptyDict } \cup { [guild_positions |-> List(g)] : g \in Guilds }
RestrictedGuildsOpts ==
    { EmptyDict, [restricted_guilds |-> List(<<>>)],
      [restricted_guilds |-> List(<<[id |-> int(IdB)]>>)] }
EnumOpts ==
    { EmptyDict,
      [explicit_content_filter |-> Member("UserContentFilter", 0),
       status |-> Member("Status", "idle"), theme |-> Member("Theme", "dark")] }
PassedOpts == { EmptyDict, [afk_timeout |-> 300, locale |-> "en-US"] }
SettingsFields ==
    { f @@ g @@ r @@ e @@ o :
      f \in FriendFlagsOpts, g \in GuildPositionsOpts, r \in RestrictedGuildsOpts,
      e \in EnumOpts, o \in PassedOpts }

\* what http.edit_settings answers: the settings document
SettingsResponses == { [locale |-> "en-US", theme |-> "dark"], [locale |-> "fr"] }

IdleFrame ==
    [op |-> "none", pc |-> "idle", fields |-> EmptyDict, self0 |-> NoObj,
     avatar |-> PyNone, args |-> EmptyDict, value |-> Unbound, data |-> EmptyDict,
     answered |-> FALSE, rotation |-> "no", exc |-> "None", result |-> PyNone]

CanCall == co.pc = "idle"

\* await me.edit with fields, up to its first await
EditCall(fields) ==
    /\ CanCall
    /\ LET r == edit_begin(me, fields) IN co' = r.co /\ calls' = r.issued
    /\ UNCHANGED <<me, token, objVars, dmVars>>

\* leave_hypesquad_house answers
LeaveAnswered ==
    /\ co.pc = "leave_hypesquad_house"
    /\ LET r == edit_change_house(co) IN co' = r.co /\ calls' = calls \o r.issued
    /\ UNCHANGED <<me, token, objVars, dmVars>>

\* change_hypesquad_house answers
ChangeAnswered ==
    /\ co.pc = "change_hypesquad_house"
    /\ LET r == edit_call_edit_profile(co) IN co' = r.co /\ calls' = calls \o r.issued
    /\ UNCHANGED <<me, token, objVars, dmVars>>

\* edit_profile answers with data
EditProfileAnswered(data, rot) ==
    /\ co.pc = "edit_profile"
    /\ LET r == edit_finish(me, co, token, data, rot)
       IN  me' = r.me /\ token' = r.token /\ co' = r.co
    /\ UNCHANGED <<calls, objVars, dmVars>>

\* await me.create_group with recipients, up to its await
CreateGroupCall(recipients) ==
    /\ CanCall
    /\ LET r == create_group_begin(me, recipients) IN co' = r.co /\ calls' = r.issued
    /\ UNCHANGED <<me, token, objVars, dmVars>>

\* start_group answers with data
StartGroupAnswered(data) ==
    /\ co.pc = "start_group"
    /\ co' = create_group_finish(me, co, data)
    /\ UNCHANGED <<me, token, calls, objVars, dmVars>>

\* await me.edit_settings with kwargs, up to its await
EditSettingsCall(kwargs) ==
    /\ CanCall
    /\ LET r == edit_settings_begin(me, kwargs) IN co' = r.co /\ calls' = r.issued
    /\ UNCHANGED <<me, token, objVars, dmVars>>

\* http.edit_settings answers with data
EditSettingsAnswered(data) ==
    /\ co.pc = "edit_settings"
    /\ co' = edit_settings_finish(co, data)
    /\ UNCHANGED <<me, token, calls, objVars, dmVars>>

\* the remote call awaited fails: the HTTPException leaves the coroutine
RemoteFailed ==
    /\ co.pc \in {"leave_hypesquad_house", "change_hypesquad_house", "edit_profile",
                  "start_group", "edit_settings"}
    /\ co' = Done(co, "HTTPException", PyNone)
    /\ UNCHANGED <<me, token, calls, objVars, dmVars>>

\* the caller takes the result (or the exception) of the finished coroutine
Collect ==
    /\ co.pc = "done"
    /\ co' = IdleFrame
    /\ calls' = <<>>
    /\ UNCHANGED <<me, token, objVars, dmVars>>

ClientAtRest ==
    /\ co = IdleFrame
    /\ calls = <<>>
    /\ token = "token0"

InitClient ==
    /\ me \in { New("ClientUser", "state1", data).obj : data \in ClientPayloads }
    /\ ClientAtRest
    /\ DmAtRest
    /\ objs = [h \in {1, 2} |-> NoObj]
    /\ users = [st \in States |-> NoUsers]
    /\ last = [op |-> "none", h |-> 1, src |-> 1, data |-> EmptyDict, rep |-> FALSE]

NextClient ==
    \/ \E fields \in EditFields : EditCall(fields)
    \/ LeaveAnswered
    \/ ChangeAnswered
    \/ \E data \in EditResponses(me), rot \in TokenOutcomes : EditProfileAnswered(data, rot)
    \/ \E recipients \in Recipients : CreateGroupCall(recipients)
    \/ \E data \in GroupResponses : StartGroupAnswered(data)
    \/ \E kwargs \in SettingsFields : EditSettingsCall(kwargs)
    \/ \E data \in SettingsResponses : EditSettingsAnswered(data)
    \/ RemoteFailed
    \/ Collect

SpecClient == InitClient /\ [][NextClient]_vars

(***************************************************************************)
(* Spec: the life of the user objects                                      *)
(***************************************************************************)
Handles == {1, 2}

PayloadsOf(cls) == IF cls = "ClientUser" THEN ClientPayloads ELSE BasePayloads

Live == {h \in Handles : objs[h] # NoObj}

Op(op, h, src, data, rep) == [op |-> op, h |-> h, src |-> src, data |-> data, rep |-> rep]

\* objs[h] = cls(state=state, data=data)
Construct(h, cls, state, data) ==
    LET r == New(cls, state, data) IN
    /\ objs[h] = NoObj
    /\ r.exc = "None"
    /\ objs' = [objs EXCEPT ![h] = r.obj]
    /\ last' = Op("__init__", h, h, data, FALSE)
    /\ UNCHANGED <<users, clientVars, dmVars>>

\* objs[h]._update(data); rep records that the same call was the last one too,
\* exc the exception that left the call, and before the object as it was
\* when a call that failed began
Update(h, data) ==
    /\ h \in Live
    /\ LET r == _update(objs[h], data)
       IN  /\ objs' = [objs EXCEPT ![h] = r.obj]
           /\ last' = Op("_update", h, h, data,
                         last.op = "_update" /\ last.h = h /\ last.data = data)
                         @@ [exc |-> r.exc,
                             before |-> IF r.exc = "None" THEN NoObj ELSE objs[h]]
    /\ UNCHANGED <<users, clientVars, dmVars>>

\* objs[dst] = cls._copy(objs[src])
Copy(cls, src, dst) ==
    /\ src \in Live
    /\ dst # src
    /\ objs' = [objs EXCEPT ![dst] = _copy(cls, objs[src])]
    /\ last' = Op("_copy", dst, src, EmptyDict, FALSE)
    /\ UNCHANGED <<users, clientVars, dmVars>>

\* cls(state=state, data=data) fails on a payload that lacks a mandatory key;
\* no reference to the object is left, and it is destroyed as it is
ConstructFails(cls, state, data, fail) ==
    LET r == New(cls, state, data)
        d == __del__(r.obj, users[state], fail)
    IN  /\ r.exc # "None"
        /\ users' = [users EXCEPT ![state] = d.reg]
        /\ last' = [op |-> "__del__", h |-> 0, obj |-> r.obj, torn |-> users[state].torn,
                    fail |-> fail, exc |-> d.exc, calls |-> d.calls, init |-> r.exc]
        /\ UNCHANGED <<objs, clientVars, dmVars>>

\* the session of objs[h] registers it: state.store_user
StoreUser(h) ==
    /\ h \in Live
    /\ objs[h].cls = "User"
    /\ ~users[objs[h]["_state"]].torn
    /\ objs[h]["id"] \notin users[objs[h]["_state"]].ids
    /\ LET r == store_user(users[objs[h]["_state"]], objs[h])
       IN  /\ objs' = [objs EXCEPT ![h] = r.obj]
           /\ users' = [users EXCEPT ![objs[h]["_state"]] = r.reg]
    /\ last' = Op("store_user", h, h, EmptyDict, FALSE)
    /\ UNCHANGED <<clientVars, dmVars>>

\* the session context st is closed
TearDown(st) ==
    /\ ~users[st].torn
    /\ users' = [users EXCEPT ![st] = clear(users[st])]
    /\ last' = Op("clear", 1, 1, EmptyDict, FALSE)
    /\ UNCHANGED <<objs, clientVars, dmVars>>

\* the last reference to objs[h] is dropped: del objs[h]
Del(h, fail) ==
    /\ h \in Live
    /\ LET self == objs[h]
           d == __del__(self, users[self["_state"]], fail)
       IN  /\ users' = [users EXCEPT ![self["_state"]] = d.reg]
           /\ last' = [op |-> "__del__", h |-> h, obj |-> self,
                       torn |-> users[self["_state"]].torn, fail |-> fail,
                       exc |-> d.exc, calls |-> d.calls, init |-> "None"]
    /\ objs' = [objs EXCEPT ![h] = NoObj]
    /\ UNCHANGED <<clientVars, dmVars>>

Init ==
    /\ objs = [h \in Handles |-> NoObj]
    /\ last = Op("none", 1, 1, EmptyDict, FALSE)
    /\ users = [st \in States |-> NoUsers]
    /\ me = NoObj
    /\ ClientAtRest
    /\ DmAtRest

Next ==
    \/ \E h \in Handles, cls \in Classes, st \in States :
         \E data \in PayloadsOf(cls) : Construct(h, cls, st, data)
    \/ \E h \in Handles : \E data \in PayloadsOf(objs[h].cls) : Update(h, data)
    \/ \E cls \in Classes, src \in Handles, dst \in Handles : Copy(cls, src, dst)

Spec == Init /\ [][Next]_vars

(***************************************************************************)
(* SpecLife: User objects from construction to destruction, the registry   *)
(* of their session and its teardown                                       *)
(***************************************************************************)
\* the payloads the users of SpecLife are built from
LifePayloads == { data \in BasePayloads : data.id \in {IdA, IdB} }

NextLife ==
    \/ \E h \in Handles, st \in States :
         \E data \in LifePayloads : Construct(h, "User", st, data)
    \/ \E st \in States, fail \in BOOLEAN :
         \E data \in MissingKeyPayloads : ConstructFails("User", st, data, fail)
    \/ \E src \in Handles, dst \in Handles : objs[dst] = NoObj /\ Copy("User", src, dst)
    \/ \E h \in Handles : StoreUser(h)
    \/ \E st \in States : TearDown(st)
    \/ \E h \in Handles, fail \in BOOLEAN : Del(h, fail)

SpecLife == Init /\ [][NextLife]_vars

(***************************************************************************)
(* SpecQuery: two constructed objects, and the comparisons and accessors   *)
(* applied to them (none changes an object)                                *)
(***************************************************************************)
Built(sts) ==
    { New(cls, st, data).obj : cls \in Classes, st \in sts, data \in BasePayloads }
        \cup { New("ClientUser", st, data).obj : st \in sts, data \in ClientPayloads }

\* a == b, a != b, hash(a), hash(b)
Compare(a, b) ==
    /\ last' = [op |-> "__eq__", h |-> a, other |-> b,
                eq |-> BaseUser__eq__(objs[a], objs[b]),
                ne |-> BaseUser__ne__(objs[a], objs[b]),
                hash_self |-> BaseUser__hash__(objs[a]),
                hash_other |-> BaseUser__hash__(objs[b])]
    /\ UNCHANGED <<objs, users, clientVars, dmVars>>

\* objs[h].avatar, objs[h].default_avatar
Avatar(h) ==
    /\ last' = [op |-> "avatar", h |-> h, result |-> avatar(objs[h]),
                default |-> default_avatar(objs[h])]
    /\ UNCHANGED <<objs, users, clientVars, dmVars>>

\* objs[h].mentioned_in(message)
MentionedIn(h, message) ==
    /\ last' = [op |-> "mentioned_in", h |-> h, message |-> message,
                result |-> mentioned_in(objs[h], message)]
    /\ UNCHANGED <<objs, users, clientVars, dmVars>>

InitQuery ==
    /\ objs \in { <<a, b>> : a \in Built(States), b \in Built({"state1"}) }
    /\ last = Op("none", 1, 1, EmptyDict, FALSE)
    /\ users = [st \in States |-> NoUsers]
    /\ me = NoObj
    /\ ClientAtRest
    /\ DmAtRest

NextQuery ==
    \/ \E a \in Handles, b \in Handles : Compare(a, b)
    \/ \E h \in Handles : Avatar(h)
    \/ \E h \in Handles, message \in Messages : MentionedIn(h, message)

SpecQuery == InitQuery /\ [][NextQuery]_vars

(***************************************************************************)
(* SpecMissingKey: _update of a constructed object with payloads of the    *)
(* wire that may lack a mandatory key                                      *)
(***************************************************************************)
InitMissingKey ==
    /\ objs \in { <<a, NoObj>> : a \in Built({"state1"}) }
    /\ last = Op("none", 1, 1, EmptyDict, FALSE)
    /\ users = [st \in States |-> NoUsers]
    /\ me = NoObj
    /\ ClientAtRest
    /\ DmAtRest

NextMissingKey ==
    \E h \in Handles :
        \E data \in PayloadsOf(objs[h].cls) \cup MissingKeyPayloads : Update(h, data)

SpecMissingKey == InitMissingKey /\ [][NextMissingKey]_vars

(***************************************************************************)
(* SpecDm                                                                  *)
(***************************************************************************)
InitDm ==
    /\ objs \in [Handles -> { New("User", "state1", data).obj : data \in BasePayloads }]
    /\ last = Op("none", 1, 1, EmptyDict, FALSE)
    /\ users = [st \in States |-> NoUsers]
    /\ me = NoObj
    /\ ClientAtRest
    /\ DmAtRest

NextDm ==
    \/ \E t \in Tasks, h \in Handles : CreateDmCall(t, h)
    \/ \E t \in Tasks : StartPrivateMessageAnswered(t)
    \/ \E t \in Tasks : StartPrivateMessageFailed(t)
    \/ \E t \in Tasks : CollectDm(t)

SpecDm == InitDm /\ [][NextDm]_vars

(***************************************************************************)
(* Claims                                                                  *)
(***************************************************************************)
Pow2_22 == 4194304

\* C1: for any two user objects of any classes built from any payloads,
\* a == b holds exactly when the ids are equal (whatever the other fields),
\* a != b is the negation of a == b, equal objects have equal hashes, and the
\* hash is the id shifted right by 22 bits.
C1_EqualityById ==
    last.op = "__eq__" =>
        LET a == objs[last.h]
            b == objs[last.other]
        IN  /\ last.eq <=> (a["id"] = b["id"])
            /\ last.ne <=> ~last.eq
            /\ last.eq => last.hash_self = last.hash_other
            /\ last.hash_self = a["id"] \div Pow2_22
            /\ last.hash_other = b["id"] \div Pow2_22

\* two objects of different classes with the same id (written differently on
\* the wire) and different names have been compared, and compared equal
C1_Witness ==
    /\ last.op = "__eq__"
    /\ objs[last.h].cls # objs[last.other].cls
    /\ objs[last.h]["id"] = objs[last.other]["id"]
    /\ objs[last.h]["name"] # objs[last.other]["name"]
    /\ last.eq /\ ~last.ne
    /\ last.hash_self = last.hash_other

\* the slots _update writes, by class
BaseSlots ==
    {"name", "id", "discriminator", "_avatar", "_banner", "_accent_colour",
     "_public_flags", "bot", "system"}
ClientSlots ==
    {"verified", "email", "locale", "_flags", "mfa_enabled", "premium", "premium_type"}
UpdatedSlots(cls) == IF cls = "ClientUser" THEN BaseSlots \cup ClientSlots ELSE BaseSlots

\* C2: _update is idempotent for every class: from any prior state of an
\* object, applying a valid payload twice in a row leaves every slot as
\* applying it once does, and the slots _update writes do not depend on what
\* the object held before (they are those of an object freshly built from
\* the payload).
C2_UpdateIdempotent ==
    /\ \A h \in Live : \A data \in PayloadsOf(objs[h].cls) :
         LET once == _update(objs[h], data)
             twice == _update(once.obj, data)
             fresh == New(objs[h].cls, objs[h]["_state"], data).obj
         IN  /\ once.exc = "None" /\ twice.exc = "None"
             /\ twice.obj = once.obj
             /\ \A k \in UpdatedSlots(objs[h].cls) :
                  k \in DOMAIN once.obj /\ once.obj[k] = fresh[k]
    /\ last.op = "_update" =>
         LET self == objs[last.h]
             fresh == New(self.cls, self["_state"], last.data).obj
         IN  /\ \A k \in UpdatedSlots(self.cls) : k \in DOMAIN self /\ self[k] = fresh[k]
             /\ _update(self, last.data).obj = self

\* the same payload has just been applied twice in a row to an object whose
\* other handle holds an object of the same class with other field values
C2_Witness ==
    /\ last.op = "_update" /\ last.rep
    /\ \E g \in Live : /\ g # last.h
                       /\ objs[g].cls = objs[last.h].cls
                       /\ objs[g]["name"] # objs[last.h]["name"]

\* the slots of a BaseUser the claim C3 lists
TrackedSlots == BaseSlots \cup {"_state"}

\* C3 (as claimed): after cls._copy(user) every tracked slot of the new
\* object is set and equals the slot of the source.
C3_CopyReplicatesEverySlot ==
    last.op = "_copy" =>
        \A k \in TrackedSlots :
            k \in DOMAIN objs[last.src] =>
                k \in DOMAIN objs[last.h] /\ objs[last.h][k] = objs[last.src][k]

\* C7 (as claimed): a user without an avatar hash gets the default avatar
\* variant id mod 5, whatever its discriminator; with a hash, the asset keyed
\* by (id, hash).
C7_DefaultAvatarById ==
    last.op = "avatar" =>
        LET self == objs[last.h] IN
        IF self["_avatar"] = None
        THEN last.result.kind = "default" /\ last.result.index = self["id"] % 5
        ELSE /\ last.result.kind = "avatar"
             /\ last.result.id = self["id"] /\ last.result.hash = self["_avatar"]

\* C7 (amended): a user without an avatar hash gets the default avatar
\* variant int(discriminator) mod 5, whatever its id, which is also what
\* default_avatar returns; with a hash, the asset keyed by (id, hash).
C7_DefaultAvatarByDiscriminator ==
    last.op = "avatar" =>
        LET self == objs[last.h] IN
        IF self["_avatar"] = None
        THEN /\ last.result.kind = "default"
             /\ last.result.index = int(self["discriminator"]) % 5
             /\ last.result = last.default
        ELSE /\ last.result.kind = "avatar"
             /\ last.result.id = self["id"] /\ last.result.hash = self["_avatar"]

\* avatar was read on a user without a hash whose id and discriminator
\* differ modulo 5
C7_Witness ==
    /\ last.op = "avatar"
    /\ objs[last.h]["_avatar"] = None
    /\ objs[last.h]["id"] % 5 # int(objs[last.h]["discriminator"]) % 5
    /\ last.result.kind = "default"

\* C8: mentioned_in is true for every user when the message mentions
\* everyone; otherwise it is true exactly when some entry of the mentions
\* list has this user's id (so false for an empty list).
C8_MentionedIn ==
    last.op = "mentioned_in" =>
        LET ids == {last.message.mentions[i].id : i \in 1..Len(last.message.mentions)}
        IN  /\ last.message.mention_everyone => last.result
            /\ ~last.message.mention_everyone =>
                 (last.result <=> objs[last.h]["id"] \in ids)
            /\ (~last.message.mention_everyone /\ last.message.mentions = <<>>) =>
                 ~last.result

\* a message that mentions everyone, and lists only other users, was asked
\* about
C8_Witness ==
    /\ last.op = "mentioned_in"
    /\ last.message.mention_everyone
    /\ Len(last.message.mentions) > 0
    /\ \A i \in 1..Len(last.message.mentions) :
         last.message.mentions[i].id # objs[last.h]["id"]
    /\ last.result

\* edit was called on a non-bot account without a password (absent or None)
NoPasswordEdit ==
    /\ co.op = "edit"
    /\ ~co.self0["bot"]
    /\ get(co.fields, "password", None) = None

\* C4: edit on a non-bot account with no password (absent or None) fails
\* with a ClientException (InvalidArgument, a ClientException, when the avatar
\* bytes are of no supported image type) and, at that moment, no remote call
\* has been issued, no answer has been processed (the token is rotated only
\* when edit_profile answers) and no slot of self has changed, whatever other
\* fields were passed.
C4_NoPasswordFailsBeforeAnyCall ==
    NoPasswordEdit =>
        /\ co.pc = "done"
        /\ IsClientException(co.exc)
        /\ co.exc = "InvalidArgument" =>
             (Has(co.fields, "avatar") /\ co.fields["avatar"] = Bytes("text_bytes"))
        /\ calls = <<>>
        /\ ~co.answered
        /\ me = co.self0

\* such an edit was called with an avatar, a house, a username and an email,
\* and has failed with ClientException
C4_Witness ==
    /\ NoPasswordEdit
    /\ Has(co.fields, "avatar") /\ co.fields["avatar"] = Bytes("PNG_bytes")
    /\ Has(co.fields, "house") /\ co.fields["house"] = PyNone
    /\ Has(co.fields, "username") /\ Has(co.fields, "email")
    /\ co.pc = "done" /\ co.exc = "ClientException"
    /\ calls = <<>>

\* C5: create_group with zero or one recipient fails with ClientException and
\* issues no remote call; with two or more it issues exactly one start_group
\* call, for this user's id, whose recipient list is the decimal string of
\* every recipient's id in argument order, and when that call answers it
\* returns the group channel built from the answer (when it fails, the
\* HTTPException leaves create_group).
C5_CreateGroup ==
    co.op = "create_group" =>
        LET recipients == co.fields IN
        IF Len(recipients) < 2
        THEN co.pc = "done" /\ co.exc = "ClientException" /\ calls = <<>>
        ELSE /\ Len(calls) = 1
             /\ calls[1].name = "start_group"
             /\ calls[1].user_id = me["id"]
             /\ Len(calls[1].recipients) = Len(recipients)
             /\ \A i \in 1..Len(recipients) :
                  /\ int(calls[1].recipients[i]) = recipients[i].id
                  /\ calls[1].recipients[i][1] # 0
             /\ co.pc \in {"start_group", "done"}
             /\ co.pc = "done" => co.exc \in {"None", "HTTPException"}
             /\ (co.pc = "done" /\ co.exc = "None") =>
                  /\ co.answered
                  /\ co.result.t = "GroupChannel"
                  /\ co.result.data = co.data /\ co.data \in GroupResponses
                  /\ co.result.me = me

\* create_group returned a channel for three recipients, two of them the same
C5_Witness ==
    /\ co.op = "create_group"
    /\ Len(co.fields) = 3
    /\ co.fields[1].id = co.fields[3].id /\ co.fields[1].id # co.fields[2].id
    /\ co.pc = "done" /\ co.exc = "None"
    /\ co.result.t = "GroupChannel"

\* edit was called with a password that is not None
PasswordEdit ==
    /\ co.op = "edit"
    /\ get(co.fields, "password", None) # None

CallNames == {calls[i].name : i \in 1..Len(calls)}

\* C9 (as claimed): in edit with a valid password and a house option, exactly
\* one house side call is issued, before edit_profile: leave_hypesquad_house
\* alone for house = None, change_hypesquad_house with the member's value
\* alone for a member, and once the side call has answered edit goes on to
\* the edit_profile call; a house outside the enumeration fails with
\* ClientException before any remote call.
C9_HouseSideCallThenEditProfile ==
    (PasswordEdit /\ Has(co.fields, "house") /\ co.exc # "InvalidArgument") =>
        LET house == co.fields["house"] IN
        IF house # PyNone /\ house \notin HypeSquadHouse
        THEN co.pc = "done" /\ co.exc = "ClientException" /\ calls = <<>>
        ELSE /\ Len(calls) >= 1
             /\ IF house = PyNone
                THEN /\ calls[1].name = "leave_hypesquad_house"
                     /\ "change_hypesquad_house" \notin CallNames
                ELSE /\ calls[1] = [name |-> "change_hypesquad_house", value |-> house.value]
                     /\ "leave_hypesquad_house" \notin CallNames
             /\ \A i \in 2..Len(calls) : calls[i].name = "edit_profile"
             /\ Len(calls) <= 2
             \* the side call answered: edit is at or past the edit_profile call
             /\ (co.pc = "edit_profile" \/ (co.pc = "done" /\ co.exc # "HTTPException")) =>
                  Len(calls) = 2
             /\ (co.pc = "done" /\ Len(calls) = 1) => co.exc = "HTTPException"

\* C10 (as claimed): whenever edit_profile has answered, edit completes: self
\* has the answer applied through _update, and a new ClientUser built from
\* the answer is returned, in each of the three avatar cases.
C10_EditReturnsNewClientUser ==
    (co.op = "edit" /\ co.answered) =>
        /\ co.pc = "done"
        /\ co.exc = "None"
        /\ co.result.t = "ClientUser" /\ co.result.new
        /\ co.result.obj = New("ClientUser", me["_state"], co.data).obj
        /\ \A k \in UpdatedSlots("ClientUser") : me[k] = co.result.obj[k]

\* C6: a create_dm call that starts with no channel cached for the user's id
\* issues exactly one start_private_message call for that id and, when it is
\* answered, registers and returns the channel built from the answer; a call
\* that starts with a channel cached returns that channel and issues no call.
\* So when the calls are made one after the other (none starts while another
\* is suspended), a channel once registered is never replaced and every later
\* call returns it.
C6_CreateDmUsesCache ==
    /\ Len(dmcalls) = dmhist.misses
    /\ \A i \in 1..Len(dmcalls) : dmcalls[i].name = "start_private_message"
    /\ \A t \in Tasks : dm[t].pc # "idle" =>
         LET f == dm[t]
             uid == f.self0["id"]
         IN  IF f.found0 # PyNone
             THEN f.pc = "done" /\ f.exc = "None" /\ f.result = f.found0
             ELSE /\ f.pc \in {"start_private_message", "done"}
                  /\ \E i \in 1..Len(dmcalls) : dmcalls[i].user_id = uid
                  /\ f.pc = "done" => f.exc \in {"None", "HTTPException"}
                  /\ (f.pc = "done" /\ f.exc = "None") =>
                       /\ f.result.t = "DMChannel" /\ f.result.recipient = uid
                       /\ Has(dms, uid)
                       /\ ~dmhist.overlap => dms[uid] = f.result
    /\ ~dmhist.overlap =>
         /\ dmhist.registered = Cardinality(DOMAIN dms)
         /\ \A t \in Tasks : (dm[t].pc = "done" /\ dm[t].exc = "None") =>
              dm[t].result = dms[dm[t].self0["id"]]

\* after a first call that registered a channel, a later call (through another
\* User object with the same id) has returned that channel, with one remote
\* call in all
C6_Witness ==
    /\ ~dmhist.overlap
    /\ dmhist.started >= 2 /\ dmhist.registered = 1 /\ Len(dmcalls) = 1
    /\ objs[1]["name"] # objs[2]["name"]
    /\ \E t \in Tasks :
         /\ dm[t].pc = "done" /\ dm[t].exc = "None"
         /\ dm[t].found0 # PyNone
         /\ dm[t].self0 = objs[2]
         /\ dm[t].result = dms[objs[2]["id"]]
         /\ dm[t].result.oid = 1

\* C11 (as claimed): once edit_profile has answered an edit on a non-bot
\* account, self.email is the answer's email, and the token step does not make
\* edit fail: with no token in the answer http._token is not called, and
\* when the answer has no token or the call of http._token fails, edit still
\* applies _update to self and returns the new ClientUser. On a bot account
\* http._token is never called.
C11_TokenRotationNeverFailsEdit ==
    (co.op = "edit" /\ co.answered) =>
        IF co.self0["bot"] THEN co.rotation = "no"
        ELSE /\ me["email"] = co.data["email"]
             /\ ~Has(co.data, "token") => co.rotation = "no"
             /\ (~Has(co.data, "token") \/ co.rotation = "failed") =>
                  /\ co.pc = "done" /\ co.exc = "None"
                  /\ co.result.t = "ClientUser" /\ co.result.new
                  /\ \A k \in UpdatedSlots("ClientUser") : me[k] = co.result.obj[k]

\* the object last destroyed had its stored flag set
DestroyedStored ==
    /\ last.op = "__del__"
    /\ last.obj.cls = "User"
    /\ Has(last.obj, "_stored") /\ last.obj["_stored"]

\* C12: when a User is destroyed with its stored flag true, deref_user of its
\* session is called exactly once, with the user's id (and releases the id
\* when it succeeds); with the flag false, as on every object _copy returns,
\* or never assigned (the construction failed), deref_user is not called;
\* and no exception leaves __del__, also when the registry has been torn
\* down or deref_user fails.
C12_DelDerefsStoredOnly ==
    /\ last.op = "_copy" => ~objs[last.h]["_stored"]
    /\ last.op = "__del__" =>
         /\ last.exc = "None"
         /\ IF DestroyedStored
            THEN /\ last.calls = <<[name |-> "deref_user", state |-> last.obj["_state"],
                                    user_id |-> last.obj["id"]]>>
                 /\ (~last.torn /\ ~last.fail) =>
                      last.obj["id"] \notin users[last.obj["_state"]].ids
            ELSE last.calls = <<>>

\* a stored user was destroyed after its session's registry was torn down,
\* while the other session still holds a user with the same id
C12_Witness ==
    /\ DestroyedStored
    /\ last.torn
    /\ last.exc = "None" /\ Len(last.calls) = 1
    /\ \E st \in States : last.obj["id"] \in users[st].ids

\* C13 (as claimed): the avatar argument of every edit_profile request edit
\* issues is the base64 data URI of the bytes when avatar bytes were
\* supplied, None when avatar = None was supplied, and, when avatar was not
\* supplied, the avatar value self holds (its hash, or None), unless the key
\* is left out.
C13_AvatarArgument ==
    co.op = "edit" =>
        \A i \in 1..Len(calls) : calls[i].name = "edit_profile" =>
            LET args == calls[i].args
                stored == co.self0["_avatar"]
            IN  IF Has(co.fields, "avatar")
                THEN /\ Has(args, "avatar")
                     /\ IF co.fields["avatar"] = PyNone
                        THEN args["avatar"] = PyNone
                        ELSE /\ args["avatar"].t = "str"
                             /\ args["avatar"] = _bytes_to_base64_data(co.fields["avatar"]).obj
                ELSE \/ ~Has(args, "avatar")
                     \/ args["avatar"] = PyNone /\ stored = None
                     \/ /\ args["avatar"].t = "str"
                        /\ args["avatar"].v = stored

\* the keyword argument k was supplied to edit_settings with a value
Supplied(k) == Has(co.fields, k) /\ co.fields[k] # PyNone

\* C14 (as claimed): edit_settings issues exactly one edit_settings call. Its
\* payload has, for a supplied friend_source_flags of ordinal n, the entry of
\* the table 0 -> {}, 1 -> {mutual_guilds}, 2 -> {mutual_friends}, 3 -> {both},
\* 4 -> {all}; for a supplied guild_positions or restricted_guilds, the list
\* of the decimal strings of the ids, also when the list is empty; and every
\* other option but the six translated ones under its own key, unchanged.
\* The answer of the call is returned as it is.
C14_EditSettingsPayload ==
    co.op = "edit_settings" =>
        /\ Len(calls) = 1
        /\ calls[1].name = "edit_settings"
        /\ LET payload == calls[1].payload IN
           /\ Supplied("friend_source_flags") =>
                /\ Has(payload, "friend_source_flags")
                /\ LET n == co.fields["friend_source_flags"].value
                       entry == payload["friend_source_flags"]
                   IN  /\ DOMAIN entry =
                            CASE n = 0 -> {}
                              [] n = 1 -> {"mutual_guilds"}
                              [] n = 2 -> {"mutual_friends"}
                              [] n = 3 -> {"mutual_guilds", "mutual_friends"}
                              [] n = 4 -> {"all"}
                       /\ \A k \in DOMAIN entry : entry[k] = TRUE
           /\ \A k \in {"guild_positions", "restricted_guilds"} : Supplied(k) =>
                /\ Has(payload, k)
                /\ Len(payload[k]) = Len(co.fields[k].v)
                /\ \A i \in 1..Len(payload[k]) :
                     /\ int(payload[k][i]) = co.fields[k].v[i].id
                     /\ payload[k][i][1] # 0
           /\ \A k \in (DOMAIN co.fields) \ PoppedOptions :
                Has(payload, k) /\ payload[k] = co.fields[k]
        /\ co.pc \in {"edit_settings", "done"}
        /\ (co.pc = "done" /\ co.exc = "None") =>
             co.result = co.data /\ co.data \in SettingsResponses

\* tasks t and u are in create_dm calls for the same user that both found no
\* channel cached
BothMissed(t, u) ==
    /\ t # u
    /\ dm[t].pc # "idle" /\ dm[u].pc # "idle"
    /\ dm[t].self0["id"] = dm[u].self0["id"]
    /\ dm[t].found0 = PyNone /\ dm[u].found0 = PyNone

\* C15 (as claimed): two create_dm calls for the same user that both start
\* with no channel cached are never both suspended at a
\* start_private_message call of their own (at most one call is issued for
\* the two), and when both have returned they have returned the same channel.
C15_ConcurrentCreateDmOneCall ==
    \A t \in Tasks, u \in Tasks : BothMissed(t, u) =>
        /\ ~(dm[t].pc = "start_private_message" /\ dm[u].pc = "start_private_message")
        /\ (dm[t].pc = "done" /\ dm[t].exc = "None" /\ dm[u].pc = "done" /\ dm[u].exc = "None")
             => dm[t].result = dm[u].result

\* C16 (as claimed): _update on a constructed user with a payload that lacks
\* one of the mandatory keys fails with KeyError, and every slot of the
\* object then holds the value it had before the call.
C16_UpdateAllOrNothing ==
    last.op = "_update" =>
        /\ last.data \in MissingKeyPayloads <=> last.exc # "None"
        /\ last.exc # "None" =>
             /\ last.exc = "KeyError"
             /\ objs[last.h] = last.before

====
